---- MODULE Spec2Model ----
(***************************************************************************)
(* A model of jrnl's command line driver (jrnl/cli.py): mode resolution,   *)
(* compose, filtering, and the export-family actions (print, export,       *)
(* encrypt, decrypt, edit, delete) of one invocation of run().             *)
(*                                                                         *)
(* Text is a sequence of one-character strings, so that join, split and    *)
(* strip are computed.  An optional value (None or a value) is a sequence  *)
(* of length at most one.  The three-valued options --encrypt, --decrypt   *)
(* and --export hold PyFalse (not given), PyNone (given without a value)   *)
(* or a string.                                                            *)
(***************************************************************************)
EXTENDS Integers, Sequences, FiniteSets, TLC

\* ------------------------------------------------------------------ bounds
MaxStore == 2
MaxDate == 2
MaxParsed == 2
MaxRaw == 2
MaxLimit == 1

\* ------------------------------------------------------------ Python values
PyFalse == "<False>"
PyNone == "<None>"
None == << >>
Some(v) == << v >>

\* `x is not False` for the three-valued options.
IsNotFalse(v) == v # PyFalse

\* `not x` for the three-valued options: None and the empty string are falsy.
NotStr(v) == v \in {PyFalse, PyNone, ""}

\* Truth value of an optional string or date (None is falsy).
TruthyOpt(o) == o # None

\* Truth value of an optional integer (None and 0 are falsy).
TruthyInt(o) == o # None /\ o[1] # 0

\* ------------------------------------------------------------------ strings
IsSpace(c) == c = " "

RECURSIVE Join(_)
Join(ws) ==
    IF ws = << >> THEN << >>
    ELSE IF Len(ws) = 1 THEN ws[1]
    ELSE ws[1] \o << " " >> \o Join(Tail(ws))

RECURSIVE LStrip(_)
LStrip(s) == IF s # << >> /\ IsSpace(Head(s)) THEN LStrip(Tail(s)) ELSE s

RECURSIVE RStrip(_)
RStrip(s) ==
    IF s # << >> /\ IsSpace(s[Len(s)]) THEN RStrip(SubSeq(s, 1, Len(s) - 1)) ELSE s

Strip(s) == RStrip(LStrip(s))

\* Index of the first whitespace of s, or Len(s) + 1.
WordEnd(s) ==
    CHOOSE i \in 1..(Len(s) + 1) :
        /\ (i = Len(s) + 1 \/ IsSpace(s[i]))
        /\ \A j \in 1..(i - 1) : ~IsSpace(s[j])

RECURSIVE Split(_)
Split(s) ==
    LET t == LStrip(s) IN
    IF t = << >> THEN << >>
    ELSE << SubSeq(t, 1, WordEnd(t) - 1) >> \o Split(SubSeq(t, WordEnd(t), Len(t)))

Range(s) == { s[i] : i \in 1..Len(s) }

\* ------------------------------------------------------------- guess_mode
\* Faulty variant: one tag among the words is enough.
AllTagsAny(text, tagsymbols) ==
    \E w \in Range(Split(Join(text))) : w[1] \in tagsymbols

\* all(word[0] in config["tagsymbols"] for word in " ".join(args.text).split())
AllTags(text, tagsymbols) ==
    \A w \in Range(Split(Join(text))) : w[1] \in tagsymbols

\* Faulty variant: forgets the destructive flags in the first test.
ExportFamilyNoEditDelete(a) ==
    \/ IsNotFalse(a.decrypt)
    \/ IsNotFalse(a.encrypt)
    \/ IsNotFalse(a.export)
    \/ a.short \/ a.tags

\* The first test: any export-family option.
ExportFamily(a) ==
    \/ IsNotFalse(a.decrypt)
    \/ IsNotFalse(a.encrypt)
    \/ IsNotFalse(a.export)
    \/ a.short \/ a.tags \/ a.edit \/ a.delete

DisplayFamily(a) ==
    \/ TruthyOpt(a.start_date)
    \/ TruthyOpt(a.end_date)
    \/ TruthyOpt(a.on_date)
    \/ TruthyInt(a.limit)
    \/ a.strict
    \/ a.starred
    \/ TruthyOpt(a.contains)

\* Faulty variant: the first test does not clear compose.
guess_modeComposeKept(a, cfg) ==
    IF ExportFamily(a) THEN << TRUE, TRUE >>
    ELSE IF DisplayFamily(a) THEN << FALSE, FALSE >>
    ELSE IF a.text # << >> /\ AllTags(a.text, cfg.tagsymbols) THEN << FALSE, FALSE >>
    ELSE << TRUE, FALSE >>

\* Returns << compose, export >>.
guess_mode(a, cfg) ==
    IF ExportFamily(a) THEN << FALSE, TRUE >>
    ELSE IF DisplayFamily(a) THEN << FALSE, FALSE >>
    ELSE IF a.text # << >> /\ AllTags(a.text, cfg.tagsymbols) THEN << FALSE, FALSE >>
    ELSE << TRUE, FALSE >>

\* ---------------------------------------------------------------- entries
\* An entry is compared by content: its date, its text and its star.
Entry(d, t, s) == [date |-> d, text |-> t, starred |-> s]

TagSymbols == { "@" }

EntryTags(e) == { w \in Range(Split(e.text)) : w[1] \in TagSymbols }

IsSubstring(p, s) ==
    \E i \in 0..(Len(s) - Len(p)) : SubSeq(s, i + 1, i + Len(p)) = p

\* journal.filter: the ordered subsequence of the entries that satisfy the criteria.
Matches(e, a) ==
    /\ a.text = << >>
         \/ IF a.strict THEN Range(a.text) \subseteq EntryTags(e)
                        ELSE Range(a.text) \cap EntryTags(e) # {}
    /\ Range(a.excluded) \cap EntryTags(e) = {}
    /\ ~a.starred \/ e.starred
    /\ a.start_date = None \/ a.start_date[1] <= e.date
    /\ a.end_date = None \/ e.date <= a.end_date[1]
    /\ a.contains = None \/ IsSubstring(a.contains[1], e.text)

filter(es, a) ==
    LET Keep(e) == Matches(e, a) IN SelectSeq(es, Keep)

\* journal.limit: the last n entries, or all of them when n is unset or not positive.
limit(es, n) ==
    IF n = None \/ n[1] <= 0 \/ n[1] >= Len(es) THEN es
    ELSE SubSeq(es, Len(es) - n[1] + 1, Len(es))

\* journal.sort: by date, stable for equal dates.
RECURSIVE sort(_)
sort(es) ==
    IF es = << >> THEN << >>
    ELSE LET rest == sort(SubSeq(es, 1, Len(es) - 1))
             e == es[Len(es)]
             k == Cardinality({ i \in 1..Len(rest) : rest[i].date <= e.date })
         IN SubSeq(rest, 1, k) \o << e >> \o SubSeq(rest, k + 1, Len(rest))

IsSorted(es) == \A i \in 1..(Len(es) - 1) : es[i].date <= es[i + 1].date

\* journal.new_entry: one entry built from the raw text, dated now, appended.
Now == MaxDate
new_entry(es, raw) == Append(es, Entry(Now, raw, FALSE))

\* journal.delete_entries: each confirmed entry is removed once, by content.
RECURSIVE RemoveFirst(_, _)
RemoveFirst(es, x) ==
    IF es = << >> THEN << >>
    ELSE IF Head(es) = x THEN Tail(es)
    ELSE << Head(es) >> \o RemoveFirst(Tail(es), x)

RECURSIVE delete_entries(_, _)
delete_entries(es, dels) ==
    IF dels = << >> THEN es
    ELSE delete_entries(RemoveFirst(es, Head(dels)), Tail(dels))

\* ---------------------------------------------------------- editable text
\* The editable text is a sequence of tokens: a header token opens an entry
\* (its date and star), the character tokens after it are the entry's text.
HdrTok(e) == [k |-> "hdr", date |-> e.date, starred |-> e.starred, c |-> ""]
ChTok(c) == [k |-> "ch", date |-> 0, starred |-> FALSE, c |-> c]

EntryTokens(e) == << HdrTok(e) >> \o [i \in 1..Len(e.text) |-> ChTok(e.text[i])]

RECURSIVE editable_str(_)
editable_str(es) ==
    IF es = << >> THEN << >>
    ELSE EntryTokens(Head(es)) \o editable_str(Tail(es))

\* Parsing: characters before the first header belong to no entry.
RECURSIVE ParseTokens(_, _)
ParseTokens(toks, acc) ==
    IF toks = << >> THEN acc
    ELSE LET t == Head(toks) IN
         IF t.k = "hdr"
         THEN ParseTokens(Tail(toks), Append(acc, Entry(t.date, << >>, t.starred)))
         ELSE IF acc = << >> THEN ParseTokens(Tail(toks), acc)
         ELSE ParseTokens(Tail(toks),
                  [acc EXCEPT ![Len(acc)].text = Append(@, t.c)])

parse_editable_str(edited) == ParseTokens(edited, << >>)

\* An entry of the parsed text is modified when its serialized form differs
\* from the one the view had at the same position.
IsModified(view, parsed, i) ==
    i > Len(view) \/ EntryTokens(parsed[i]) # EntryTokens(view[i])

\* ------------------------------------------------------------ configuration
\* dict.update: the keys of n are set in d.
DictUpdate(d, n) ==
    [k \in (DOMAIN d) \cup (DOMAIN n) |-> IF k \in DOMAIN n THEN n[k] ELSE d[k]]

\* `if scope`: None and the empty name are falsy.
ScopeSet(scope) == scope \notin { PyNone, "" }

\* A configuration is [top |-> the top-level keys, journals |-> one entry per
\* journal name]; an entry is a path (isdict = FALSE, d = [journal |-> path])
\* or a dictionary of overrides (isdict = TRUE, d holding "journal" and more).
\* Faulty variant: a path entry is converted whether or not force_local is set.
update_configForceIgnored(config, new_config, scope, force_local) ==
    IF ScopeSet(scope) /\ config.journals[scope].isdict
    THEN [config EXCEPT !.journals[scope].d = DictUpdate(@, new_config)]
    ELSE IF ScopeSet(scope)
    THEN [config EXCEPT !.journals[scope] =
              [isdict |-> TRUE,
               d |-> DictUpdate([journal |-> config.journals[scope].d.journal],
                                new_config)]]
    ELSE [config EXCEPT !.top = DictUpdate(@, new_config)]

update_config(config, new_config, scope, force_local) ==
    IF ScopeSet(scope) /\ config.journals[scope].isdict
    THEN [config EXCEPT !.journals[scope].d = DictUpdate(@, new_config)]
    ELSE IF ScopeSet(scope) /\ force_local
    THEN [config EXCEPT !.journals[scope] =
              [isdict |-> TRUE,
               d |-> DictUpdate([journal |-> config.journals[scope].d.journal],
                                new_config)]]
    ELSE [config EXCEPT !.top = DictUpdate(@, new_config)]

\* util.scope_config: the top-level keys overridden by the journal's entry.
scope_config(config, journal_name) ==
    DictUpdate(config.top, config.journals[journal_name].d)

\* ------------------------------------------------------------------- files
\* A file is [form |-> "absent" | "plain" | "encrypted", entries |-> its entries].
AbsentFile == [form |-> "absent", entries |-> << >>]

FormOf(encrypt) == IF encrypt THEN "encrypted" ELSE "plain"

\* The path journal.write(filename) writes to: filename, or the journal's own.
WriteTarget(filename, own) == IF NotStr(filename) THEN own ELSE filename

\* Faulty variant: truncates the target before writing, so a failed write leaves it empty.
StoreTruncating(fs, path, content, ok) ==
    IF ok THEN [fs EXCEPT ![path] = content]
    ELSE [fs EXCEPT ![path] = [form |-> content.form, entries |-> << >>]]

\* Persisting is one whole-file atomic replace: a failed write leaves the file as it was.
Store(fs, path, content, ok) ==
    IF ok THEN [fs EXCEPT ![path] = content] ELSE fs

\* ----------------------------------------------------- the pieces of run()
\* Faulty variant: forgets to strip the text.
ComposeRawUnstripped(text) == Join(text)

\* raw = " ".join(args.text).strip()
ComposeRaw(text) == Strip(Join(text))

\* if args.on_date: args.start_date = args.end_date = args.on_date
OnDate(a) ==
    IF TruthyOpt(a.on_date)
    THEN [a EXCEPT !.start_date = a.on_date, !.end_date = a.on_date]
    ELSE a

\* Faulty variant: tests --encrypt before the printing actions.
BranchEncryptFirst(a, compose, export) ==
    IF ~compose /\ ~export THEN "read"
    ELSE IF IsNotFalse(a.encrypt) THEN "encrypt"
    ELSE IF a.short THEN "short"
    ELSE IF a.tags THEN "tags"
    ELSE IF IsNotFalse(a.export) THEN "export"
    ELSE IF IsNotFalse(a.decrypt) THEN "decrypt"
    ELSE IF a.edit THEN "edit"
    ELSE IF a.delete THEN "delete"
    ELSE "none"

\* The if / elif chain that picks the one action of the invocation.
Branch(a, compose, export) ==
    IF ~compose /\ ~export THEN "read"
    ELSE IF a.short THEN "short"
    ELSE IF a.tags THEN "tags"
    ELSE IF IsNotFalse(a.export) THEN "export"
    ELSE IF IsNotFalse(a.encrypt) THEN "encrypt"
    ELSE IF IsNotFalse(a.decrypt) THEN "decrypt"
    ELSE IF a.edit THEN "edit"
    ELSE IF a.delete THEN "delete"
    ELSE "none"

\* Faulty variant: updates the configuration whatever the destination.
InPlaceAlways(filename) == TRUE

\* `if not args.encrypt` / `if not args.decrypt`: no separate file was named.
InPlace(filename) == NotStr(filename)

\* Faulty variant: the configuration is saved even when the write raised.
ConfigSavedAlways(ok, filename) == InPlace(filename)

\* update_config and save_config follow encrypt() / decrypt() in the branch:
\* they are reached only when the write returned.
ConfigSaved(ok, filename) == ok /\ InPlace(filename)

\* other_entries = [e for e in old_entries if e not in journal.entries]
OtherEntries(old, cur) ==
    LET Unseen(e) == e \notin Range(cur) IN SelectSeq(old, Unseen)

\* num_deleted = old_num_entries - len(journal)
NumDeleted(old_num, new_num) == old_num - new_num

\* Faulty variant: counts every entry, modified or not.
NumEditedAll(view, parsed) == Len(parsed)

\* num_edited = len([e for e in journal.entries if e.modified])
NumEdited(view, parsed) ==
    Cardinality({ i \in 1..Len(parsed) : IsModified(view, parsed, i) })

Noun(n) == IF n = 1 THEN "entry" ELSE "entries"

\* The clauses of the summary line; both nouns follow num_deleted.
Prompts(nd, ne) ==
    (IF nd # 0 THEN << [count |-> nd, noun |-> Noun(nd), what |-> "deleted"] >>
     ELSE << >>)
    \o
    (IF ne # 0 THEN << [count |-> ne, noun |-> Noun(nd), what |-> "modified"] >>
     ELSE << >>)

\* Faulty variant: the entries outside the view are not put back.
MergeEntriesParsedOnly(parsed, other) == sort(parsed)

\* journal.entries += other_entries; journal.sort()
MergeEntries(parsed, other) == sort(parsed \o other)

\* Faulty variant: deletes from the filtered view.
DeleteBaseView(old, cur) == cur

\* journal.entries = old_entries
DeleteBase(old, cur) == old

\* Faulty variant: writes whether or not anything was confirmed.
DeleteConfirmedAlways(dels) == TRUE

\* if entries_to_delete:
DeleteConfirmed(dels) == dels # << >>

\* Faulty variant: an empty input is composed like any other.
HasTextAlways(raw) == TRUE

\* if raw:
HasText(raw) == raw # << >>

\* Faulty variant: the editor is launched whether or not one is configured.
EditorMissingNever(cfg) == FALSE

\* elif args.edit: if not config["editor"]:
EditorMissing(cfg) == cfg.editor = ""

\* ------------------------------------------------------------------- state
VARIABLES
    pc,               \* "start", "input", "body", "dispatch", "done"
    exit_code,        \* -1 while running, then the exit status
    args,             \* the parsed command line
    journal_name,     \* args.journal_name
    config,           \* the scoped configuration run() reads
    journal_config,   \* journal.config
    original_config,  \* the unscoped configuration, as loaded
    saved_config,     \* the configuration file
    files,            \* the files, by path
    entries,          \* journal.entries
    old_entries,      \* the entries before the filter
    mode_compose,
    mode_export,
    input,            \* where the composed text was read from, and the text
    edited,           \* the text the editor returned
    num_deleted,
    num_edited,
    entries_to_delete,
    ran,              \* the branches of the if / elif chain that ran
    trace             \* the writes, saves, prompts and messages, in order

vars == << pc, exit_code, args, journal_name, config, journal_config,
           original_config, saved_config, files, entries, old_entries,
           mode_compose, mode_export, input, edited, num_deleted, num_edited,
           entries_to_delete, ran, trace >>

\* ------------------------------------------------------------------ inputs
SeqsUpTo(S, n) == UNION { [1..k -> S] : k \in 0..n }

Alphabet == { "a", " ", "@" }
TagWord == << "@", "t" >>
PlainWord == << "a" >>

Dates == 1..MaxDate
EntryPool ==
    { Entry(d, PlainWord, FALSE) : d \in Dates }
        \cup { Entry(d, TagWord, TRUE) : d \in Dates }
\* The entries an editor session writes.
EditPool ==
    { Entry(1, PlainWord, FALSE), Entry(1, TagWord, TRUE),
      Entry(MaxDate, PlainWord, FALSE) }

\* The stores a journal file can hold: in date order.
Stores == { s \in SeqsUpTo(EntryPool, MaxStore) : IsSorted(s) }
SmallStores ==
    { << >>,
      << Entry(1, PlainWord, FALSE), Entry(1, TagWord, TRUE) >> }

Tri == { PyFalse, PyNone, "out.txt" }
ExportFlagCombos ==
    [decrypt : Tri, encrypt : Tri, export : { PyFalse, "json" },
     short : BOOLEAN, tags : BOOLEAN, edit : BOOLEAN, delete : BOOLEAN]
NoFlags ==
    [decrypt |-> PyFalse, encrypt |-> PyFalse, export |-> PyFalse,
     short |-> FALSE, tags |-> FALSE, edit |-> FALSE, delete |-> FALSE]
FlagCount(f) ==
    Cardinality({ k \in { "decrypt", "encrypt", "export" } : f[k] # PyFalse })
        + Cardinality({ k \in { "short", "tags", "edit", "delete" } : f[k] })
SingleFlags == { f \in ExportFlagCombos : FlagCount(f) <= 1 }
ConfigFlags ==
    { f \in SingleFlags :
        f.export = PyFalse /\ ~f.short /\ ~f.tags /\ ~f.delete }

Limits == { None } \cup { Some(n) : n \in 0..MaxLimit }
NoCriteria ==
    [start_date |-> None, end_date |-> None, on_date |-> None, limit |-> None,
     strict |-> FALSE, starred |-> FALSE, contains |-> None, excluded |-> << >>]
CriteriaCombos ==
    [start_date : { None, Some(1) }, end_date : { None, Some(1) },
     on_date : { None, Some(MaxDate) }, limit : Limits,
     strict : BOOLEAN, starred : BOOLEAN,
     contains : { None, Some(PlainWord) }, excluded : { << >> }]
CriteriaProfiles ==
    { [NoCriteria EXCEPT !.limit = l] : l \in Limits }
        \cup { [NoCriteria EXCEPT !.starred = TRUE, !.limit = Some(1)],
               [NoCriteria EXCEPT !.start_date = Some(MaxDate)],
               [NoCriteria EXCEPT !.end_date = Some(1)],
               [NoCriteria EXCEPT !.on_date = Some(1)],
               [NoCriteria EXCEPT !.contains = Some(<< "t" >>)],
               [NoCriteria EXCEPT !.excluded = << TagWord >>] }

Words == SeqsUpTo(Alphabet, MaxRaw)
Texts == SeqsUpTo(Words, 2)
ModeTexts == { << >>, << TagWord >>, << PlainWord >> }
ModeCriteria ==
    [start_date : { None, Some(1) }, end_date : { None, Some(1) },
     on_date : { None, Some(1) }, limit : { None, Some(0), Some(1) },
     strict : BOOLEAN, starred : BOOLEAN,
     contains : { None, Some(PlainWord) }, excluded : { << >> }]
RawInputs == Words

ArgsOf(flags, crit, text) ==
    DictUpdate(DictUpdate(flags, crit), [text |-> text])

Scopes == { "default", "work" }
PathOf(name) == IF name = "default" THEN "journal.txt" ELSE "work.txt"
Paths == { "journal.txt", "work.txt", "out.txt" }

ScalarEntry(path) == [isdict |-> FALSE, d |-> [journal |-> path]]
ScopeEntries(path) ==
    { ScalarEntry(path), [isdict |-> TRUE, d |-> [journal |-> path]] }
        \cup { [isdict |-> TRUE, d |-> [journal |-> path, encrypt |-> b]] :
                 b \in BOOLEAN }

ConfigOf(enc, editor, template, name, entry) ==
    [top |-> [encrypt |-> enc, editor |-> editor, template |-> template,
              tagsymbols |-> TagSymbols],
     journals |-> [n \in Scopes |->
                      IF n = name THEN entry ELSE ScalarEntry(PathOf(n))]]
DefaultConfig ==
    ConfigOf(FALSE, "vim", "", "default", ScalarEntry(PathOf("default")))
Configs ==
    UNION { { ConfigOf(enc, ed, tp, n, e) :
                enc \in BOOLEAN, ed \in { "", "vim" },
                tp \in { "", "template.txt" }, e \in ScopeEntries(PathOf(n)) } :
            n \in Scopes }

\* The state once the command line is parsed and the configuration is loaded.
Loaded(a, name, cfg, store) ==
    /\ pc = "start"
    /\ exit_code = -1
    /\ args = a
    /\ journal_name = name
    /\ original_config = cfg
    /\ saved_config = cfg
    /\ config = scope_config(cfg, name)
    /\ journal_config = scope_config(cfg, name)
    /\ files = [p \in Paths |->
                   IF p = PathOf(name)
                   THEN [form |-> FormOf(scope_config(cfg, name).encrypt),
                         entries |-> store]
                   ELSE AbsentFile]
    /\ entries = << >>
    /\ old_entries = << >>
    /\ mode_compose = TRUE
    /\ mode_export = FALSE
    /\ input = [source |-> "none", raw |-> << >>]
    /\ edited = << >>
    /\ num_deleted = 0
    /\ num_edited = 0
    /\ entries_to_delete = << >>
    /\ ran = {}
    /\ trace = << >>

Init ==
    \/ \E f \in ExportFlagCombos, s \in SmallStores :
           Loaded(ArgsOf(f, NoCriteria, << >>), "default", DefaultConfig, s)
    \/ \E f \in SingleFlags, c \in CriteriaProfiles, s \in Stores :
           Loaded(ArgsOf(f, c, << >>), "default", DefaultConfig, s)
    \/ \E f \in SingleFlags, b \in BOOLEAN, s \in Stores :
           Loaded(ArgsOf(f, [NoCriteria EXCEPT !.strict = b], << TagWord >>),
                  "default", DefaultConfig, s)
    \/ \E f \in ConfigFlags, t \in { << >>, << PlainWord >> }, n \in Scopes,
          cfg \in Configs, s \in SmallStores :
           Loaded(ArgsOf(f, NoCriteria, t), n, cfg, s)
    \/ \E c \in CriteriaCombos, t \in { << >>, << TagWord >> } :
           Loaded(ArgsOf(NoFlags, c, t), "default", DefaultConfig,
                  << Entry(1, TagWord, TRUE) >>)
    \/ \E t \in Texts :
           Loaded(ArgsOf(NoFlags, NoCriteria, t), "default", DefaultConfig,
                  << Entry(1, PlainWord, FALSE) >>)

\* Every flag combination, for the mode resolver.
InitMode ==
    \/ \E f \in ExportFlagCombos, c \in ModeCriteria, t \in ModeTexts :
          Loaded(ArgsOf(f, c, t), "default", DefaultConfig, << >>)
    \/ \E t \in Texts :
          Loaded(ArgsOf(NoFlags, NoCriteria, t), "default", DefaultConfig, << >>)

\* ----------------------------------------------------------------- actions
Say(msg) == trace' = Append(trace, msg)

Exit(code) == pc' = "done" /\ exit_code' = code

\* journal = open_journal(...); mode_compose, mode_export = guess_mode(args, config)
GuessMode ==
    /\ pc = "start"
    /\ entries' = files[config.journal].entries
    /\ mode_compose' = guess_mode(args, config)[1]
    /\ mode_export' = guess_mode(args, config)[2]
    /\ pc' = "input"
    /\ UNCHANGED << exit_code, args, journal_name, config, journal_config,
                    original_config, saved_config, files, old_entries, input,
                    edited, num_deleted, num_edited, entries_to_delete, ran, trace >>

NeedInput == mode_compose /\ args.text = << >>

\* if raw: args.text = [raw]  else: sys.exit()
GotRaw(source, raw, said) ==
    /\ input' = [source |-> source, raw |-> raw]
    /\ trace' = trace \o said
    /\ IF HasText(raw)
       THEN /\ args' = [args EXCEPT !.text = << raw >>]
            /\ pc' = "body"
            /\ UNCHANGED exit_code
       ELSE /\ Exit(0)
            /\ UNCHANGED args

InputFrame ==
    UNCHANGED << journal_name, config, journal_config, original_config,
                 saved_config, files, entries, old_entries, mode_compose,
                 mode_export, edited, num_deleted, num_edited,
                 entries_to_delete, ran >>

\* The text is given on the command line, or the mode is not Compose.
NoInput ==
    /\ pc = "input"
    /\ ~NeedInput
    /\ pc' = "body"
    /\ UNCHANGED << exit_code, args, input, trace >>
    /\ InputFrame

\* Standard input is not a terminal: it is read whole.
ReadPiped ==
    /\ pc = "input"
    /\ NeedInput
    /\ \E raw \in RawInputs : GotRaw("pipe", raw, << >>)
    /\ InputFrame

\* An editor is configured (and the template, if any, is readable).
ReadEditor ==
    /\ pc = "input"
    /\ NeedInput
    /\ config.editor # ""
    /\ \E raw \in RawInputs : GotRaw("editor", raw, << "editor" >>)
    /\ InputFrame

\* The configured template cannot be read.
TemplateError ==
    /\ pc = "input"
    /\ NeedInput
    /\ config.editor # ""
    /\ config.template # ""
    /\ Say("template_error")
    /\ Exit(1)
    /\ UNCHANGED << args, input >>
    /\ InputFrame

\* No editor: the text is typed at the terminal.
ReadTerminal ==
    /\ pc = "input"
    /\ NeedInput
    /\ config.editor = ""
    /\ \E raw \in RawInputs : GotRaw("terminal", raw, << "writing_prompt" >>)
    /\ InputFrame

\* The user interrupts the terminal read.
KeyboardInterrupt ==
    /\ pc = "input"
    /\ NeedInput
    /\ config.editor = ""
    /\ trace' = trace \o << "writing_prompt", "not_saved" >>
    /\ input' = [source |-> "interrupted", raw |-> << >>]
    /\ Exit(0)
    /\ UNCHANGED args
    /\ InputFrame

\* journal.write(): the journal's own file, in the form it was opened in.
OwnFile == [form |-> FormOf(config.encrypt), entries |-> entries']

\* A write either completes or raises; the exception ends the invocation.
Wrote(ok) == IF ok THEN "write" ELSE "write_failed"
Status(ok) == IF ok THEN 0 ELSE 1

\* Writing mode: new_entry, the confirmation, write.
Compose ==
    /\ pc = "body"
    /\ mode_compose
    /\ entries' = new_entry(entries, ComposeRaw(args.text))
    /\ \E ok \in BOOLEAN :
          /\ files' = Store(files, config.journal, OwnFile, ok)
          /\ trace' = trace \o << "entry_added", Wrote(ok) >>
          /\ pc' = IF ok THEN "dispatch" ELSE "done"
          /\ exit_code' = IF ok THEN exit_code ELSE 1
    /\ UNCHANGED << args, journal_name, config, journal_config, original_config,
                    saved_config, old_entries, mode_compose, mode_export, input,
                    edited, num_deleted, num_edited, entries_to_delete, ran >>

\* old_entries = journal.entries; journal.filter(...); journal.limit(args.limit)
FilterLimit ==
    /\ pc = "body"
    /\ ~mode_compose
    /\ old_entries' = entries
    /\ args' = OnDate(args)
    /\ entries' = limit(filter(entries, args'), args'.limit)
    /\ pc' = "dispatch"
    /\ UNCHANGED << exit_code, journal_name, config, journal_config,
                    original_config, saved_config, files, mode_compose,
                    mode_export, input, edited, num_deleted, num_edited,
                    entries_to_delete, ran, trace >>

Chosen(name) ==
    /\ pc = "dispatch"
    /\ Branch(args, mode_compose, mode_export) = name
    /\ ran' = ran \cup { name }

PrintFrame ==
    UNCHANGED << args, journal_name, config, journal_config, original_config,
                 saved_config, files, entries, old_entries, mode_compose,
                 mode_export, input, edited, num_deleted, num_edited,
                 entries_to_delete >>

\* Reading mode: print(journal.pprint())
ReadMode == Chosen("read") /\ Say("stdout_pprint") /\ Exit(0) /\ PrintFrame

\* print(journal.pprint(short=True))
ShortPrint == Chosen("short") /\ Say("stdout_short") /\ Exit(0) /\ PrintFrame

\* print(plugins.get_exporter("tags").export(journal))
TagsExport == Chosen("tags") /\ Say("stdout_tags") /\ Exit(0) /\ PrintFrame

\* print(exporter.export(journal, args.output))
NamedExport == Chosen("export") /\ Say("stdout_export") /\ Exit(0) /\ PrintFrame

\* The chain has no else: in Compose mode no branch is taken.
NoAction ==
    /\ pc = "dispatch"
    /\ Branch(args, mode_compose, mode_export) = "none"
    /\ Exit(0)
    /\ UNCHANGED << ran, trace >>
    /\ PrintFrame

\* encrypt(journal, filename) / decrypt(journal, filename), then the
\* configuration update of an in-place transition.
Transition(name, filename, enc, msg) ==
    /\ Chosen(name)
    /\ journal_config' = [journal_config EXCEPT !.encrypt = enc]
    /\ \E ok \in BOOLEAN :
          /\ files' = Store(files, WriteTarget(filename, journal_config.journal),
                            [form |-> FormOf(enc), entries |-> entries], ok)
          /\ Exit(Status(ok))
          /\ trace' = trace \o (IF ok THEN << "write", msg >>
                                ELSE << "write_failed" >>)
                           \o (IF ConfigSaved(ok, filename)
                               THEN << "save_config" >> ELSE << >>)
          /\ IF ConfigSaved(ok, filename)
             THEN /\ original_config' =
                        update_config(original_config, [encrypt |-> enc],
                                      journal_name, TRUE)
                  /\ saved_config' = original_config'
             ELSE UNCHANGED << original_config, saved_config >>
    /\ UNCHANGED << args, journal_name, config, entries, old_entries,
                    mode_compose, mode_export, input, edited, num_deleted,
                    num_edited, entries_to_delete >>

Encrypt == Transition("encrypt", args.encrypt, TRUE, "encrypted_to")

Decrypt == Transition("decrypt", args.decrypt, FALSE, "decrypted_to")

\* --edit without an editor: the error, sys.exit(1).
EditNoEditor ==
    /\ Chosen("edit")
    /\ EditorMissing(config)
    /\ Say("no_editor_error")
    /\ Exit(1)
    /\ PrintFrame

\* The texts an editor session can return for a view.
EditedTexts(view) ==
    { editable_str(s) : s \in SeqsUpTo(EditPool, MaxParsed) }
        \cup { editable_str(view), << ChTok("a") >> \o editable_str(view) }

Edit ==
    /\ Chosen("edit")
    /\ ~EditorMissing(config)
    /\ \E text \in EditedTexts(entries), ok \in BOOLEAN :
          LET other_entries == OtherEntries(old_entries, entries)
              old_num_entries == Len(entries)
              parsed == parse_editable_str(text)
              nd == NumDeleted(old_num_entries, Len(parsed))
              ne == NumEdited(entries, parsed)
          IN /\ edited' = text
             /\ num_deleted' = nd
             /\ num_edited' = ne
             /\ entries' = MergeEntries(parsed, other_entries)
             /\ files' = Store(files, config.journal, OwnFile, ok)
             /\ trace' = trace \o << "editor" >>
                           \o (IF Prompts(nd, ne) # << >> THEN << "summary" >>
                               ELSE << >>)
                           \o << Wrote(ok) >>
             /\ Exit(Status(ok))
    /\ UNCHANGED << args, journal_name, config, journal_config, original_config,
                    saved_config, old_entries, mode_compose, mode_export, input,
                    entries_to_delete >>

\* --delete when the search returned nothing.
DeleteNothing ==
    /\ Chosen("delete")
    /\ entries = << >>
    /\ Say("no_results")
    /\ Exit(0)
    /\ PrintFrame

RECURSIVE Pick(_, _, _)
Pick(es, I, i) ==
    IF i > Len(es) THEN << >>
    ELSE (IF i \in I THEN << es[i] >> ELSE << >>) \o Pick(es, I, i + 1)

\* journal.prompt_delete_entries: the entries of the view the user confirms.
Confirmable(view) == { Pick(view, I, 1) : I \in SUBSET (1..Len(view)) }

Delete ==
    /\ Chosen("delete")
    /\ entries # << >>
    /\ \E dels \in Confirmable(entries), ok \in BOOLEAN :
          /\ entries_to_delete' = dels
          /\ IF DeleteConfirmed(dels)
             THEN /\ entries' = delete_entries(DeleteBase(old_entries, entries), dels)
                  /\ files' = Store(files, config.journal, OwnFile, ok)
                  /\ trace' = trace \o << "prompt", Wrote(ok) >>
                  /\ Exit(Status(ok))
             ELSE /\ UNCHANGED << entries, files >>
                  /\ trace' = trace \o << "prompt" >>
                  /\ Exit(0)
    /\ UNCHANGED << args, journal_name, config, journal_config, original_config,
                    saved_config, old_entries, mode_compose, mode_export, input,
                    edited, num_deleted, num_edited >>

Next ==
    \/ GuessMode
    \/ NoInput \/ ReadPiped \/ ReadEditor \/ TemplateError
    \/ ReadTerminal \/ KeyboardInterrupt
    \/ Compose \/ FilterLimit
    \/ ReadMode \/ ShortPrint \/ TagsExport \/ NamedExport
    \/ Encrypt \/ Decrypt
    \/ EditNoEditor \/ Edit
    \/ DeleteNothing \/ Delete
    \/ NoAction

Spec == Init /\ [][Next]_vars

\* The mode resolver alone, over every flag combination.
NextMode == GuessMode

SpecMode == InitMode /\ [][NextMode]_vars

\* update_config alone, over every kind of call: args holds the arguments of
\* the call, original_config the dictionary it updates in place, saved_config
\* the configuration as it was before.
NewConfigs ==
    { [encrypt |-> TRUE], [encrypt |-> FALSE], [editor |-> "nano"],
      [encrypt |-> TRUE, editor |-> "nano"] }
CallScopes == Scopes \cup { PyNone, "" }

InitConfig ==
    \E cfg \in Configs, n \in NewConfigs, scope \in CallScopes,
       force_local \in BOOLEAN :
        /\ pc = "start"
        /\ exit_code = -1
        /\ args = [new_config |-> n, scope |-> scope,
                   force_local |-> force_local]
        /\ journal_name = scope
        /\ original_config = cfg
        /\ saved_config = cfg
        /\ config = cfg.top
        /\ journal_config = cfg.top
        /\ files = [p \in Paths |-> AbsentFile]
        /\ entries = << >>
        /\ old_entries = << >>
        /\ mode_compose = TRUE
        /\ mode_export = FALSE
        /\ input = [source |-> "none", raw |-> << >>]
        /\ edited = << >>
        /\ num_deleted = 0
        /\ num_edited = 0
        /\ entries_to_delete = << >>
        /\ ran = {}
        /\ trace = << >>

UpdateConfig ==
    /\ pc = "start"
    /\ original_config' = update_config(original_config, args.new_config,
                                        args.scope, args.force_local)
    /\ pc' = "done"
    /\ UNCHANGED << exit_code, args, journal_name, config, journal_config,
                    saved_config, files, entries, old_entries, mode_compose,
                    mode_export, input, edited, num_deleted, num_edited,
                    entries_to_delete, ran, trace >>

NextConfig == UpdateConfig

SpecConfig == InitConfig /\ [][NextConfig]_vars

TypeOK ==
    /\ pc \in { "start", "input", "body", "dispatch", "done" }
    /\ exit_code \in { -1, 0, 1 }
    /\ (pc = "done") = (exit_code # -1)
    /\ mode_compose \in BOOLEAN
    /\ mode_export \in BOOLEAN

\* ------------------------------------------------------------------ claims
Persisted == files[config.journal].entries
FilteredView == limit(filter(old_entries, args), args.limit)
ParsedAfter == parse_editable_str(edited)
Wrote1 == "write" \in Range(trace)
WriteFailed == "write_failed" \in Range(trace)
Did(name) == pc = "done" /\ name \in ran
EditRan == Did("edit") /\ "editor" \in Range(trace)
Count(s, x) == Cardinality({ i \in 1..Len(s) : s[i] = x })
SameBag(s, t) == \A x \in Range(s) \cup Range(t) : Count(s, x) = Count(t, x)

\* C1: the store Edit persists keeps every entry that was filtered out of
\* the view, so it has |parsedAfter| + (|fullBefore| - |viewBefore|) entries.
C1_EditKeepsUnseen ==
    (EditRan /\ Wrote1) =>
        Len(Persisted) =
            Len(ParsedAfter) + (Len(old_entries) - Len(FilteredView))

\* C2: the store Delete persists is the pre-filter store with exactly the
\* confirmed entries removed, the others unchanged and in their order.
C2_DeleteRemovesConfirmed ==
    (Did("delete") /\ entries_to_delete # << >> /\ Wrote1) =>
        \E I \in SUBSET (1..Len(old_entries)) :
            /\ Cardinality(I) = Len(entries_to_delete)
            /\ SameBag(Pick(old_entries, I, 1), entries_to_delete)
            /\ Persisted = Pick(old_entries, (1..Len(old_entries)) \ I, 1)

C2_Witness ==
    /\ Did("delete")
    /\ Wrote1
    /\ Len(entries_to_delete) = 1
    /\ Len(FilteredView) < Len(old_entries)
    /\ Len(Persisted) = Len(old_entries) - 1

TransitionTarget ==
    WriteTarget(IF "encrypt" \in ran THEN args.encrypt ELSE args.decrypt,
                config.journal)
TransitionRan == pc = "done" /\ ran \cap { "encrypt", "decrypt" } # {}

\* C3: the store an encrypt or decrypt writes holds every entry of the full
\* store, in order, whatever filter criteria or limit are set.
C3_TransitionCopiesStore ==
    (TransitionRan /\ Wrote1) => files[TransitionTarget].entries = old_entries

\* C4: when any of decrypt, encrypt, export, short, tags, edit or delete is
\* set, guess_mode returns compose = false and export = true.
C4_Rule1NeverCompose ==
    ( /\ pc # "start"
      /\ \/ args.decrypt # PyFalse \/ args.encrypt # PyFalse
         \/ args.export # PyFalse
         \/ args.short \/ args.tags \/ args.edit \/ args.delete )
        => (~mode_compose /\ mode_export)

C4_Witness ==
    /\ pc = "input"
    /\ args.delete /\ args.decrypt = PyFalse /\ args.encrypt = PyFalse
    /\ args.export = PyFalse /\ ~args.short /\ ~args.tags /\ ~args.edit
    /\ args.start_date # None /\ args.limit = Some(1) /\ args.starred
    /\ args.text = << PlainWord >>
    /\ ~mode_compose /\ mode_export

Precedence ==
    << "short", "tags", "export", "encrypt", "decrypt", "edit", "delete" >>
FlagSet(name) ==
    IF name \in { "export", "encrypt", "decrypt" } THEN args[name] # PyFalse
    ELSE args[name]
Highest ==
    Precedence[CHOOSE i \in 1..Len(Precedence) :
                   /\ FlagSet(Precedence[i])
                   /\ \A j \in 1..(i - 1) : ~FlagSet(Precedence[j])]
EventsOf(name) ==
    CASE name = "short" -> { "stdout_short" }
      [] name = "tags" -> { "stdout_tags" }
      [] name = "export" -> { "stdout_export" }
      [] name = "encrypt" ->
             { "write", "write_failed", "encrypted_to", "save_config" }
      [] name = "decrypt" ->
             { "write", "write_failed", "decrypted_to", "save_config" }
      [] name = "edit" ->
             { "no_editor_error", "editor", "summary", "write", "write_failed" }
      [] name = "delete" -> { "no_results", "prompt", "write", "write_failed" }

\* C5: in the Export-family exactly one terminal action runs, the one of the
\* highest-precedence flag set (short, tags, export, encrypt, decrypt, edit,
\* delete), and nothing of the others happens.
C5_OneTerminalAction ==
    (pc = "done" /\ mode_export) =>
        (ran = { Highest } /\ Range(trace) \subseteq EventsOf(Highest))

C5_Witness ==
    /\ pc = "done"
    /\ args.short /\ args.encrypt = PyNone /\ args.edit /\ args.delete
    /\ ran = { "short" }
    /\ trace = << "stdout_short" >>

\* C6: in Compose mode with piped, non-empty input and no failure of the
\* write, exactly one entry is appended, its text is the trimmed input, and
\* the store is persisted.
C6_ComposePiped ==
    [][(pc = "body" /\ input.source = "pipe" /\ pc' = "dispatch") =>
          /\ Persisted = entries
          /\ Len(entries') = Len(entries) + 1
          /\ SubSeq(entries', 1, Len(entries)) = entries
          /\ entries'[Len(entries')].text = Strip(input.raw)
          /\ Persisted' = entries'
          /\ trace' = trace \o << "entry_added", "write" >>]_vars

C6_Witness ==
    /\ pc = "dispatch"
    /\ input = [source |-> "pipe", raw |-> << " ", "a" >>]
    /\ Persisted = entries
    /\ entries[Len(entries)].text = << "a" >>

\* C7: Delete does not persist when the view is empty or nothing is
\* confirmed: no write happens and the persisted store is unchanged; on an
\* empty view the selection prompt is not shown.
C7_DeleteNoPersist ==
    (Did("delete") /\ (FilteredView = << >> \/ entries_to_delete = << >>)) =>
        /\ ~Wrote1 /\ ~WriteFailed
        /\ Persisted = old_entries
        /\ FilteredView = << >> => "prompt" \notin Range(trace)

C7_Witness ==
    /\ Did("delete")
    /\ FilteredView # << >>
    /\ entries_to_delete = << >>
    /\ trace = << "prompt" >>
    /\ Persisted = old_entries

\* C8: when the editor returns the serialized view unchanged, no entry is
\* counted as modified or deleted and no summary line is reported.
C8_EditIdempotent ==
    (EditRan /\ edited = editable_str(FilteredView)) =>
        (num_edited = 0 /\ num_deleted = 0 /\ "summary" \notin Range(trace))

C8_Witness ==
    /\ EditRan
    /\ FilteredView # << >>
    /\ Len(FilteredView) < Len(old_entries)
    /\ edited = editable_str(FilteredView)
    /\ num_edited = 0

\* C9: when the write of an in-place encrypt or decrypt fails, the journal
\* file is what it was before the invocation.
C9_FailedTransitionKeepsFile ==
    (TransitionRan /\ TransitionTarget = config.journal /\ WriteFailed) =>
        files[config.journal] =
            [form |-> FormOf(config.encrypt), entries |-> old_entries]

C9_Witness ==
    /\ TransitionRan
    /\ TransitionTarget = config.journal
    /\ WriteFailed
    /\ old_entries # << >>
    /\ files[config.journal].entries = old_entries

\* C10: after an encrypt (decrypt) without an alternate path the saved
\* configuration of the journal has encrypt true (false); with an alternate
\* path the configuration is neither saved nor changed.
C10_ConfigFollowsInPlace ==
    (TransitionRan /\ Wrote1) =>
        IF (IF "encrypt" \in ran THEN args.encrypt ELSE args.decrypt) = PyNone
        THEN /\ "save_config" \in Range(trace)
             /\ scope_config(saved_config, journal_name).encrypt
                    = ("encrypt" \in ran)
        ELSE /\ "save_config" \notin Range(trace)
             /\ scope_config(saved_config, journal_name) = config

C10_Witness ==
    /\ TransitionRan
    /\ Wrote1
    /\ "encrypt" \in ran
    /\ args.encrypt = PyNone
    /\ ~config.encrypt
    /\ saved_config.journals[journal_name].isdict
    /\ scope_config(saved_config, journal_name).encrypt

\* C11: --edit with no editor configured aborts before anything is changed:
\* the editor is not launched, nothing is parsed or merged, the store file is
\* not written, the only output is the error naming the configuration file,
\* and the exit status is 1.
C11_EditNoEditorAborts ==
    (pc = "done" /\ Did("edit") /\ config.editor = "") =>
        /\ trace = << "no_editor_error" >>
        /\ exit_code = 1
        /\ edited = << >>
        /\ entries = FilteredView
        /\ Persisted = old_entries
        /\ saved_config = original_config

C11_Witness ==
    /\ pc = "done"
    /\ Did("edit")
    /\ config.editor = ""
    /\ old_entries # << >>
    /\ trace = << "no_editor_error" >>
    /\ exit_code = 1

ReadEvents == { "editor", "writing_prompt" }

\* C12: Compose without text writes nothing.  When the input that was read
\* is empty the invocation ends with status 0, no entry appended, no write and
\* no message after the read (only the launch of the editor or the terminal
\* prompt that preceded it); when the terminal read is interrupted it ends the
\* same way except that the "not saved" message is printed.
C12_NoTextNoWrite ==
    /\ (pc = "done" /\ mode_compose /\ input.source \in { "pipe", "editor", "terminal" }
            /\ input.raw = << >>) =>
           /\ Range(trace) \subseteq ReadEvents
           /\ entries = Persisted
           /\ ran = { }
           /\ exit_code = 0
    /\ (pc = "done" /\ input.source = "interrupted") =>
           /\ trace = << "writing_prompt", "not_saved" >>
           /\ entries = Persisted
           /\ ran = { }
           /\ exit_code = 0
    /\ "not_saved" \in Range(trace) => input.source = "interrupted"

C12_Witness ==
    /\ pc = "done"
    /\ input.source = "interrupted"
    /\ "not_saved" \in Range(trace)
    /\ entries = Persisted
    /\ entries # << >>

C12_WitnessEmpty ==
    /\ pc = "done"
    /\ input.source = "pipe"
    /\ input.raw = << >>
    /\ trace = << >>
    /\ exit_code = 0

\* The rules of the mode cascade, read off the command line.
Rule1 ==
    \/ args.decrypt # PyFalse \/ args.encrypt # PyFalse \/ args.export # PyFalse
    \/ args.short \/ args.tags \/ args.edit \/ args.delete
Rule2Given ==
    \/ args.start_date # None \/ args.end_date # None \/ args.on_date # None
    \/ args.limit # None
    \/ args.strict \/ args.starred \/ args.contains # None
Rule2Truthy ==
    \/ args.start_date # None \/ args.end_date # None \/ args.on_date # None
    \/ (args.limit # None /\ args.limit # Some(0))
    \/ args.strict \/ args.starred \/ args.contains # None
Tokens == Split(Join(args.text))
Rule3 ==
    /\ args.text # << >>
    /\ \A i \in 1..Len(Tokens) : Tokens[i][1] \in config.tagsymbols
CascadeWith(rule2) ==
    IF Rule1 THEN << FALSE, TRUE >>
    ELSE IF rule2 THEN << FALSE, FALSE >>
    ELSE IF Rule3 THEN << FALSE, FALSE >>
    ELSE << TRUE, FALSE >>

\* C13 as stated: guess_mode is the first-match-wins cascade, rule 2 applying
\* whenever one of start-date, end-date, on-date, limit, strict, starred or
\* contains is given, and it never returns (true, true).
C13_CascadeGiven ==
    pc # "start" =>
        /\ << mode_compose, mode_export >> = CascadeWith(Rule2Given)
        /\ ~(mode_compose /\ mode_export)

\* C13 amended: guess_mode is the first-match-wins cascade in which rule 2
\* applies when one of the criteria has a truthy value, a limit of 0 counting
\* as no limit, and it never returns (true, true).
C13_CascadeTruthy ==
    pc # "start" =>
        /\ << mode_compose, mode_export >> = CascadeWith(Rule2Truthy)
        /\ ~(mode_compose /\ mode_export)

C13_Witness ==
    /\ pc = "input"
    /\ ~Rule1 /\ ~Rule2Given
    /\ args.text = << << "@", "a" >>, << "@" >> >>
    /\ ~mode_compose /\ ~mode_export

C13_WitnessLimitZero ==
    /\ pc = "input"
    /\ ~Rule1 /\ ~Rule2Truthy
    /\ args.limit = Some(0)
    /\ args.text = << >>
    /\ mode_compose /\ ~mode_export

\* The summary line of Edit is built from num_deleted and num_edited.
DeletedClause ==
    \E i \in 1..Len(Prompts(num_deleted, num_edited)) :
        Prompts(num_deleted, num_edited)[i].what = "deleted"
Max0(n) == IF n > 0 THEN n ELSE 0

\* C14: after Edit the deleted count is max(0, |viewBefore| - |parsedAfter|),
\* never negative, and the summary has a "deleted" clause exactly when the
\* count is positive.
C14_DeletedCountClamped ==
    EditRan =>
        /\ num_deleted = Max0(Len(FilteredView) - Len(ParsedAfter))
        /\ num_deleted >= 0
        /\ DeletedClause <=> num_deleted > 0

OtherBefore == OtherEntries(old_entries, FilteredView)

\* C15: the store Edit persists is a permutation of parsedAfter followed by
\* otherEntries (the entries of the full store that are not in the view), so
\* it has |parsedAfter| + |otherEntries| entries and holds every entry of
\* otherEntries as it was; it is written once, already merged and sorted.
C15_EditMerge ==
    (EditRan /\ Wrote1) =>
        /\ SameBag(Persisted, ParsedAfter \o OtherBefore)
        /\ Len(Persisted) = Len(ParsedAfter) + Len(OtherBefore)
        /\ \A e \in Range(OtherBefore) : Count(Persisted, e) >= Count(OtherBefore, e)
        /\ IsSorted(Persisted)
        /\ Persisted = entries
        /\ Count(trace, "write") = 1
        /\ trace[Len(trace)] = "write"

C15_Witness ==
    /\ EditRan
    /\ Wrote1
    /\ OtherBefore # << >>
    /\ ParsedAfter # << >>
    /\ ~IsSorted(ParsedAfter \o OtherBefore)
    /\ Len(Persisted) = Len(ParsedAfter) + Len(OtherBefore)

\* C16: in Compose the confirmation that the entry was added is printed only
\* after the store has been written, so a failed write is never preceded by
\* the confirmation.
C16_ConfirmAfterPersist ==
    \A i \in 1..Len(trace) :
        /\ trace[i] = "entry_added" =>
               \E j \in 1..(i - 1) : trace[j] = "write"
        /\ trace[i] = "write_failed" =>
               \A j \in 1..(i - 1) : trace[j] # "entry_added"

StoreWrites == Count(trace, "write") + Count(trace, "write_failed")

\* C17: an invocation writes a store file at most once, whatever the mode and
\* the flags; a Compose run writes once and runs none of the export-family
\* branches.
C17_AtMostOneWrite ==
    /\ StoreWrites <= 1
    /\ ("entry_added" \in Range(trace) /\ pc = "done" /\ exit_code = 0) =>
           (StoreWrites = 1 /\ ran = { })
    /\ \A name \in { "edit", "delete", "encrypt", "decrypt" } :
           Did(name) => "entry_added" \notin Range(trace)

C17_Witness ==
    /\ pc = "done"
    /\ mode_compose
    /\ trace = << "entry_added", "write" >>
    /\ ran = { }
    /\ exit_code = 0
    /\ Persisted = entries
    /\ entries # << >>

C17_WitnessEdit ==
    /\ EditRan
    /\ StoreWrites = 1
    /\ OtherBefore # << >>

PrintOnlyRun ==
    /\ pc = "done"
    /\ ~mode_compose
    /\ \/ ~mode_export
       \/ args.short \/ args.tags \/ args.export # PyFalse

\* C18: a run that resolves to Read, or whose first set export-family flag is
\* short, tags or export, writes no store file and saves no configuration:
\* the journal file holds the full store it held before, although the
\* in-memory sequence is the filtered and limited view.
C18_PrintNeverPersists ==
    PrintOnlyRun =>
        /\ StoreWrites = 0
        /\ "save_config" \notin Range(trace)
        /\ saved_config = original_config
        /\ files[config.journal] =
               [form |-> FormOf(config.encrypt), entries |-> old_entries]
        /\ entries = FilteredView
        /\ exit_code = 0

C18_Witness ==
    /\ PrintOnlyRun
    /\ ran \in { { "read" }, { "short" }, { "tags" }, { "export" } }
    /\ Len(entries) < Len(old_entries)
    /\ Persisted = old_entries

SavedFlag == scope_config(saved_config, journal_name).encrypt

\* C19: the configuration is saved only after the store write of an in-place
\* encrypt or decrypt has returned: a failed write leaves the saved encrypt
\* flag at its loaded value, and the saved flag always agrees with the form
\* of the journal file.
C19_FlagFollowsWrite ==
    /\ FormOf(SavedFlag) = files[config.journal].form
    /\ \A i \in 1..Len(trace) :
           trace[i] = "save_config" => \E j \in 1..(i - 1) : trace[j] = "write"
    /\ (TransitionRan /\ WriteFailed) =>
           /\ "save_config" \notin Range(trace)
           /\ SavedFlag = config.encrypt

C19_Witness ==
    /\ TransitionRan
    /\ "encrypt" \in ran
    /\ args.encrypt = PyNone
    /\ WriteFailed
    /\ ~config.encrypt
    /\ ~SavedFlag
    /\ files[config.journal].form = FormOf(FALSE)

C19_WitnessSaved ==
    /\ TransitionRan
    /\ "decrypt" \in ran
    /\ args.decrypt = PyNone
    /\ trace = << "write", "decrypted_to", "save_config" >>
    /\ config.encrypt
    /\ ~SavedFlag
    /\ files[config.journal].form = FormOf(FALSE)

\* r is d updated with the keys of n.
Merged(d, n, r) ==
    /\ DOMAIN r = (DOMAIN d) \cup (DOMAIN n)
    /\ \A k \in DOMAIN r : r[k] = IF k \in DOMAIN n THEN n[k] ELSE d[k]
ScopeGiven == args.scope \notin { PyNone, "" }
OtherScopesKept ==
    \A n \in Scopes \ { args.scope } :
        original_config.journals[n] = saved_config.journals[n]

C20_WitnessGlobal ==
    /\ pc = "done"
    /\ args.scope = "work"
    /\ ~args.force_local
    /\ ~saved_config.journals["work"].isdict
    /\ original_config.journals = saved_config.journals
    /\ original_config.top # saved_config.top

====
